---- MODULE Spec2Model ----
(***************************************************************************)
(* Model of the Etsy scraper Flask app (API/index.py): the price           *)
(* normaliser parse_price, the page loop of scrape_etsy and the /search    *)
(* route.                                                                  *)
(*                                                                         *)
(* Text is a sequence of one-character strings.  Two characters have no    *)
(* printable form and are written by name: "thin" is U+2009 THIN SPACE and *)
(* "nbsp" is U+00A0 NO-BREAK SPACE.                                        *)
(*                                                                         *)
(* A float is modelled by the decimal it was read from: [m, e] stands for  *)
(* m / 10^e, normalised so that e is least.  float() of a decimal string   *)
(* of fewer than 16 significant digits is injective and order preserving,  *)
(* so equality and order of the models are those of the floats.            *)
(***************************************************************************)
EXTENDS Integers, Sequences, FiniteSets, TLC

VARIABLES
    text,       \* parse_price: the argument of the call under test
    called,     \* parse_price: TRUE once the call has returned
    out,        \* parse_price: the value returned
    pc,         \* position of the request in search / scrape_etsy
    args,       \* request.args of the request being served
    max_pages,  \* scrape_etsy: the page count requested
    page,       \* scrape_etsy: the loop variable
    soup,       \* scrape_etsy: the document of the page just fetched
    listings,   \* scrape_etsy: the candidate nodes of that document
    results,    \* scrape_etsy: the accumulator, sorted in place at the end
    response,   \* what the /search route answered
    log,        \* the outbound calls made so far: requests.get and time.sleep
    collected   \* the listings appended per fetched page, before the sort

vars == <<text, called, out, pc, args, max_pages, page, soup, listings,
          results, response, log, collected>>

parseVars == <<text, called, out>>
scrapeVars == <<pc, args, max_pages, page, soup, listings, results,
                response, log, collected>>

-----------------------------------------------------------------------------
(* Bounds *)

MaxLen == 4       \* longest text handed to parse_price in ParseSpec
MaxPages == 2     \* largest page count requested
MaxNodes == 2     \* most elements in one fetched document

-----------------------------------------------------------------------------
(* Characters and text *)

DigitChars == <<"0", "1", "2", "3", "4", "5", "6", "7", "8", "9">>

IsDigit(c) == \E i \in 1..10 : DigitChars[i] = c

DigitVal(c) == (CHOOSE i \in 1..10 : DigitChars[i] = c) - 1

\* Optional[str]: None, or a string.
None == [isNone |-> TRUE, s |-> <<>>]

Str(s) == [isNone |-> FALSE, s |-> s]

\* str.replace(old, new) for a one-character old; new is a text.
RECURSIVE Replace(_, _, _)
Replace(s, old, new) ==
    IF s = <<>> THEN <<>>
    ELSE (IF Head(s) = old THEN new ELSE <<Head(s)>>)
         \o Replace(Tail(s), old, new)

\* str.count(c) for a one-character c.
Count(s, c) == Cardinality({i \in 1..Len(s) : s[i] = c})

\* The whitespace characters of the texts modelled.
Whitespace == {" ", "thin", "nbsp"}

\* str.strip()
RECURSIVE LStrip(_)
LStrip(s) ==
    IF s # <<>> /\ Head(s) \in Whitespace THEN LStrip(Tail(s)) ELSE s

RECURSIVE RStrip(_)
RStrip(s) ==
    IF s # <<>> /\ s[Len(s)] \in Whitespace
    THEN RStrip(SubSeq(s, 1, Len(s) - 1))
    ELSE s

Strip(s) == RStrip(LStrip(s))

RECURSIVE Pow10(_)
Pow10(n) == IF n = 0 THEN 1 ELSE 10 * Pow10(n - 1)

-----------------------------------------------------------------------------
(* Optional[float] *)

NoValue == [isNone |-> TRUE, m |-> 0, e |-> 0]

RECURSIVE Normalise(_, _)
Normalise(m, e) ==
    IF e > 0 /\ m % 10 = 0 THEN Normalise(m \div 10, e - 1)
    ELSE [isNone |-> FALSE, m |-> m, e |-> e]

\* a <= b on floats that are not None.
LessEq(a, b) == a.m * Pow10(b.e) <= b.m * Pow10(a.e)

RECURSIVE DigitsToNat(_)
DigitsToNat(d) ==
    IF d = <<>> THEN 0
    ELSE 10 * DigitsToNat(SubSeq(d, 1, Len(d) - 1)) + DigitVal(d[Len(d)])

\* float(g) for g of the form [-]digits[.digits].
Float(g) ==
    LET neg == g # <<>> /\ Head(g) = "-"
        dots == {i \in 1..Len(g) : g[i] = "."}
        e == IF dots = {} THEN 0 ELSE Len(g) - (CHOOSE i \in dots : TRUE)
        m == DigitsToNat(SelectSeq(g, IsDigit))
    IN  Normalise(IF neg THEN 0 - m ELSE m, e)

-----------------------------------------------------------------------------
(* parse_price *)

\* The class [0-9.,-] of line 38.
Kept(c) == IsDigit(c) \/ c \in {".", ",", "-"}

RECURSIVE DropOthers(_)
DropOthers(s) ==
    IF s # <<>> /\ ~Kept(Head(s)) THEN DropOthers(Tail(s)) ELSE s

\* re.sub(r"[^0-9.,-]+", " ", s): each maximal run of other characters
\* becomes one space.
RECURSIVE SubOthers(_)
SubOthers(s) ==
    IF s = <<>> THEN <<>>
    ELSE IF Kept(Head(s)) THEN <<Head(s)>> \o SubOthers(Tail(s))
    ELSE <<" ">> \o SubOthers(DropOthers(Tail(s)))

\* The end of the maximal run of digits that starts at i.
RECURSIVE DigitsEnd(_, _)
DigitsEnd(s, i) ==
    IF i < Len(s) /\ IsDigit(s[i + 1]) THEN DigitsEnd(s, i + 1) ELSE i

\* An alternative of the pattern with a sign in front, as -?\d+\.\d+|-?\d+.
SignedSearchNumber(s) ==
    LET ds == {i \in 1..Len(s) : IsDigit(s[i])}
    IN  IF ds = {} THEN <<>>
        ELSE LET i == CHOOSE k \in ds : \A l \in ds : k <= l
                 j == DigitsEnd(s, i)
                 b == IF i > 1 /\ s[i - 1] = "-" THEN i - 1 ELSE i
             IN  IF j + 2 <= Len(s) /\ s[j + 1] = "." /\ IsDigit(s[j + 2])
                 THEN SubSeq(s, b, DigitsEnd(s, j + 2))
                 ELSE SubSeq(s, b, j)

\* re.search(r"\d+\.\d+|\d+", s).group(), or <<>> when there is no match
\* (a match is never empty).  The leftmost match starts at the first digit;
\* there the first alternative matches exactly when the run of digits is
\* followed by "." and a digit.
SearchNumber(s) ==
    LET ds == {i \in 1..Len(s) : IsDigit(s[i])}
    IN  IF ds = {} THEN <<>>
        ELSE LET i == CHOOSE k \in ds : \A l \in ds : k <= l
                 j == DigitsEnd(s, i)
             IN  IF j + 2 <= Len(s) /\ s[j + 1] = "." /\ IsDigit(s[j + 2])
                 THEN SubSeq(s, i, DigitsEnd(s, j + 2))
                 ELSE SubSeq(s, i, j)

\* Lines 42-45 with the branches exchanged: "," removed when alone, made
\* "." next to a ".".
SwappedSeparators(s) ==
    IF Count(s, ",") > 0 /\ Count(s, ".") > 0 THEN Replace(s, ",", <<".">>)
    ELSE IF Count(s, ",") > 0 /\ Count(s, ".") = 0 THEN Replace(s, ",", <<>>)
    ELSE s

\* Lines 42-45.
Separators(s) ==
    IF Count(s, ",") > 0 /\ Count(s, ".") > 0 THEN Replace(s, ",", <<>>)
    ELSE IF Count(s, ",") > 0 /\ Count(s, ".") = 0 THEN Replace(s, ",", <<".">>)
    ELSE s

parse_price(t) ==
    IF t.isNone \/ t.s = <<>> THEN NoValue
    ELSE LET s1 == Replace(Replace(t.s, "thin", <<>>), "nbsp", <<" ">>)
             s2 == Strip(SubOthers(s1))
         IN  IF s2 = <<>> THEN NoValue
             ELSE LET s3 == Separators(Replace(s2, " ", <<>>))
                      g == SearchNumber(s3)
                  IN  IF g = <<>> THEN NoValue ELSE Float(g)

-----------------------------------------------------------------------------
(* A call of parse_price on any text over the alphabet *)

Alphabet == {"0", "5", ",", ".", "-", " ", "thin", "nbsp", "$"}

ParseInputs ==
    {None} \cup {Str(s) : s \in UNION {[1..n -> Alphabet] : n \in 0..MaxLen}}

CallParsePrice ==
    /\ ~called
    /\ called' = TRUE
    /\ out' = parse_price(text)
    /\ UNCHANGED <<text, scrapeVars>>

-----------------------------------------------------------------------------
(* The parsed document *)

\* A document is the sequence of its top-level elements.  An element has a
\* tag name, may carry the data-listing-id attribute, has one class or none
\* (""), and has children in document order.  A child is a text node
\* (kind "text") or an element h3, a or span that holds one text node s.
Elem(tag, listing_id, cls, kids) ==
    [tag |-> tag, listing_id |-> listing_id, cls |-> cls, kids |-> kids]

Kid(kind, cls, href, title, aria_label, s) ==
    [kind |-> kind, cls |-> cls, href |-> href, title |-> title,
     aria_label |-> aria_label, s |-> s]

Txt(s) == Kid("text", "", FALSE, <<>>, <<>>, s)

H3(s) == Kid("h3", "", FALSE, <<>>, <<>>, s)

Cur(s) == Kid("span", "currency-value", FALSE, <<>>, <<>>, s)

\* A child element seen as an element of the document.
AsElem(k) == Elem(k.kind, FALSE, k.cls, <<Txt(k.s)>>)

RECURSIVE KidElems(_)
KidElems(kids) ==
    IF kids = <<>> THEN <<>>
    ELSE (IF Head(kids).kind = "text" THEN <<>> ELSE <<AsElem(Head(kids))>>)
         \o KidElems(Tail(kids))

\* Every element of the document, in document order.
RECURSIVE AllElems(_)
AllElems(doc) ==
    IF doc = <<>> THEN <<>>
    ELSE <<Head(doc)>> \o KidElems(Head(doc).kids) \o AllElems(Tail(doc))

HasListingId(el) == el.listing_id

IsUnstyledItem(el) == el.tag = "li" /\ el.cls = "wt-list-unstyled"

IsListingLink(el) == el.tag = "a" /\ el.cls = "listing-link"

\* Line 76 with the three result sets concatenated.
MergedListings(doc) ==
    SelectSeq(AllElems(doc), HasListingId)
    \o SelectSeq(AllElems(doc), IsUnstyledItem)
    \o SelectSeq(AllElems(doc), IsListingLink)

\* Line 76: a or b or c, an empty result list being false.
FindListings(doc) ==
    LET a == SelectSeq(AllElems(doc), HasListingId)
        b == SelectSeq(AllElems(doc), IsUnstyledItem)
        c == SelectSeq(AllElems(doc), IsListingLink)
    IN  IF a # <<>> THEN a ELSE IF b # <<>> THEN b ELSE c

\* Tag.find: the first of the children found, as a sequence of at most one
\* child.
FindFirst(found) == IF found = <<>> THEN <<>> ELSE <<Head(found)>>

\* The stripped, non-empty strings of the children joined by sep.
RECURSIVE JoinStripped(_, _)
JoinStripped(kids, sep) ==
    IF kids = <<>> THEN <<>>
    ELSE LET h == Strip(Head(kids).s)
             r == JoinStripped(Tail(kids), sep)
         IN  IF h = <<>> THEN r
             ELSE IF r = <<>> THEN h
             ELSE h \o sep \o r

\* listing.get_text(separator=" ", strip=True)
FullText(el) == JoinStripped(el.kids, <<" ">>)

TitleMax == 200

IsH3(k) == k.kind = "h3"

IsHrefAnchor(k) == k.kind = "a" /\ k.href

IsCurrencyValue(k) == k.kind = "span" /\ k.cls = "currency-value"

\* Lines 78-87.
TitleOf(el) ==
    LET h3 == FindFirst(SelectSeq(el.kids, IsH3))
        t1 == IF h3 # <<>> THEN Strip(h3[1].s) ELSE <<>>
        link == FindFirst(SelectSeq(el.kids, IsHrefAnchor))
        t2 == IF t1 # <<>> THEN t1
              ELSE IF link = <<>> THEN <<>>
              ELSE IF link[1].title # <<>> THEN link[1].title
              ELSE IF link[1].aria_label # <<>> THEN link[1].aria_label
              ELSE Strip(link[1].s)
    IN  IF t2 # <<>> THEN t2
        ELSE LET full == FullText(el)
             IN  SubSeq(full, 1, IF Len(full) < TitleMax THEN Len(full)
                                 ELSE TitleMax)

\* Lines 89-94 without the fall back of line 93 when the price tag exists.
PriceOfTagOnly(el) ==
    LET price_tag == FindFirst(SelectSeq(el.kids, IsCurrencyValue))
    IN  IF price_tag # <<>> THEN parse_price(Str(price_tag[1].s))
        ELSE parse_price(Str(FullText(el)))

\* Lines 89-94.
PriceOf(el) ==
    LET price_tag == FindFirst(SelectSeq(el.kids, IsCurrencyValue))
        p1 == IF price_tag # <<>> THEN parse_price(Str(price_tag[1].s))
              ELSE NoValue
    IN  IF p1.isNone THEN parse_price(Str(FullText(el))) ELSE p1

\* Lines 77-97 with the test of line 95 left out.
RECURSIVE ExtractKeepingAll(_)
ExtractKeepingAll(ls) ==
    IF ls = <<>> THEN <<>>
    ELSE <<[title |-> TitleOf(Head(ls)),
            price |-> PriceOf(Head(ls))]>>
         \o ExtractKeepingAll(Tail(ls))

\* Lines 77-97: the listings one page appends to results.
RECURSIVE Extract(_)
Extract(ls) ==
    IF ls = <<>> THEN <<>>
    ELSE LET price == PriceOf(Head(ls))
         IN  (IF price.isNone THEN <<>>
              ELSE <<[title |-> TitleOf(Head(ls)), price |-> price]>>)
             \o Extract(Tail(ls))

-----------------------------------------------------------------------------
(* list.sort(key=lambda x: x["price"]) *)

\* x put in front of the first element that is not smaller.
RECURSIVE InsertBeforeEqual(_, _)
InsertBeforeEqual(sorted, x) ==
    IF sorted = <<>> THEN <<x>>
    ELSE IF LessEq(x.price, Head(sorted).price) THEN <<x>> \o sorted
    ELSE <<Head(sorted)>> \o InsertBeforeEqual(Tail(sorted), x)

\* x put behind every element that is not greater.
RECURSIVE Insert(_, _)
Insert(sorted, x) ==
    IF sorted = <<>> THEN <<x>>
    ELSE IF LessEq(Head(sorted).price, x.price)
    THEN <<Head(sorted)>> \o Insert(Tail(sorted), x)
    ELSE <<x>> \o sorted

\* A sort that does not keep the order of equal keys.
RECURSIVE UnstableSortByPrice(_)
UnstableSortByPrice(r) ==
    IF r = <<>> THEN <<>>
    ELSE InsertBeforeEqual(UnstableSortByPrice(SubSeq(r, 1, Len(r) - 1)),
                           r[Len(r)])

\* Line 100.  Python's sort is stable and ascending.
RECURSIVE SortByPrice(_)
SortByPrice(r) ==
    IF r = <<>> THEN <<>>
    ELSE Insert(SortByPrice(SubSeq(r, 1, Len(r) - 1)), r[Len(r)])

-----------------------------------------------------------------------------
(* The responses of the search site *)

\* The elements the fetched documents are built from.
\*   ListedA:    (a)          h3 title, price tag "$20"
\*   ListedB:    (a) and (b)  h3 title, text "2x", price tag "-5"
\*   ItemC:      (b)          linked title, price tag "n/a", text "5,0"
\*   Links:      none itself; holds two (c) anchors, "$5" and "5.0"
\*   ListedFree: (a)          h3 title, price tag "free", no digit anywhere
ListedA == Elem("div", TRUE, "", <<H3(<<"A">>), Cur(<<"$", "2", "0">>)>>)

ListedB ==
    Elem("li", TRUE, "wt-list-unstyled",
         <<H3(<<" ", "B">>), Txt(<<"2", "x">>), Cur(<<"-", "5">>)>>)

ItemC ==
    Elem("li", FALSE, "wt-list-unstyled",
         <<Kid("a", "listing-link", TRUE, <<>>, <<"C">>, <<"x">>),
           Cur(<<"n", "/", "a">>), Txt(<<"nbsp", "5", ",", "0">>)>>)

Links ==
    Elem("div", FALSE, "",
         <<Kid("a", "listing-link", TRUE, <<>>, <<>>, <<"$", "5">>),
           Kid("a", "listing-link", TRUE, <<>>, <<>>, <<"5", ".", "0">>)>>)

ListedFree ==
    Elem("div", TRUE, "", <<H3(<<"B">>), Cur(<<"f", "r", "e", "e">>)>>)

Nodes == {ListedA, ListedB, ItemC, Links, ListedFree}

Docs == UNION {[1..n -> Nodes] : n \in 0..MaxNodes}

-----------------------------------------------------------------------------
(* The /search request *)

RECURSIVE NatToText(_)
NatToText(n) ==
    IF n < 10 THEN <<DigitChars[n + 1]>>
    ELSE NatToText(n \div 10) \o <<DigitChars[(n % 10) + 1]>>

IntToText(n) == IF n < 0 THEN <<"-">> \o NatToText(0 - n) ELSE NatToText(n)

Keywords == {None, Str(<<>>), Str(<<"m", "u", "g">>)}

PagesArgs ==
    {None, Str(<<>>), Str(<<"t", "w", "o">>)}
    \cup {Str(IntToText(n)) : n \in -1..MaxPages}

\* int(x) for a string x: an optional sign and digits, whitespace around
\* them ignored; anything else raises ValueError (ok is FALSE).
IntOf(t) ==
    LET s == Strip(t)
        signed == s # <<>> /\ Head(s) \in {"-", "+"}
        d == IF signed THEN Tail(s) ELSE s
    IN  IF d = <<>> \/ \E i \in 1..Len(d) : ~IsDigit(d[i])
        THEN [ok |-> FALSE, v |-> 0]
        ELSE [ok |-> TRUE,
              v |-> IF signed /\ Head(s) = "-" THEN 0 - DigitsToNat(d)
                    ELSE DigitsToNat(d)]

\* int(request.args.get("pages", 1))
PagesOf(a) == IF a.pages.isNone THEN [ok |-> TRUE, v |-> 1] ELSE IntOf(a.pages.s)

NoResponse == [status |-> 0, error |-> "", items |-> <<>>]

\* jsonify({"error": "Missing 'keyword' parameter"}), 400
MissingKeyword ==
    [status |-> 400, error |-> "Missing 'keyword' parameter", items |-> <<>>]

\* The answer to a request whose handler raised.
ServerError ==
    [status |-> 500, error |-> "Internal Server Error", items |-> <<>>]

\* jsonify(results)
Ok(r) == [status |-> 200, error |-> "", items |-> r]

\* The defaults of scrape_etsy, in seconds; search passes neither.
Pause == 1

Timeout == 10

\* requests.get(url, headers=headers, timeout=timeout) for page p.
Get(p, result) ==
    [op |-> "get", page |-> p, result |-> result, secs |-> Timeout]

\* time.sleep(pause) at the end of the iteration for page p.
Slept(p) == [op |-> "sleep", page |-> p, result |-> "slept", secs |-> Pause]

\* Where range(1, max_pages + 1) goes with the loop variable at p.
LoopAt(p, n) == IF p <= n THEN "fetch" ELSE "sort"

Init ==
    /\ text = None
    /\ called = FALSE
    /\ out = NoValue
    /\ pc = "idle"
    /\ args = [keyword |-> None, pages |-> None]
    /\ max_pages = 0
    /\ page = 0
    /\ soup = <<>>
    /\ listings = <<>>
    /\ results = <<>>
    /\ response = NoResponse
    /\ log = <<>>
    /\ collected = <<>>

\* Lines 111-115 with the page count read before the keyword is tested.
SearchPagesFirst ==
    /\ pc = "idle"
    /\ \E k \in Keywords, p \in PagesArgs :
        LET a == [keyword |-> k, pages |-> p]
            n == PagesOf(a)
        IN  /\ args' = a
            /\ IF ~n.ok
               THEN /\ response' = ServerError
                    /\ pc' = "done"
                    /\ UNCHANGED <<max_pages, page>>
               ELSE IF k.isNone \/ k.s = <<>>
               THEN /\ response' = MissingKeyword
                    /\ pc' = "done"
                    /\ UNCHANGED <<max_pages, page>>
               ELSE /\ max_pages' = n.v
                    /\ page' = 1
                    /\ pc' = LoopAt(1, n.v)
                    /\ UNCHANGED response
    /\ UNCHANGED <<parseVars, soup, listings, results, log, collected>>

\* Lines 111-115 and 56-64: the request arrives, is validated, and
\* scrape_etsy is entered.
Search ==
    /\ pc = "idle"
    /\ \E k \in Keywords, p \in PagesArgs :
        LET a == [keyword |-> k, pages |-> p]
            n == PagesOf(a)
        IN  /\ args' = a
            /\ IF k.isNone \/ k.s = <<>>
               THEN /\ response' = MissingKeyword
                    /\ pc' = "done"
                    /\ UNCHANGED <<max_pages, page>>
               ELSE IF ~n.ok
               THEN /\ response' = ServerError
                    /\ pc' = "done"
                    /\ UNCHANGED <<max_pages, page>>
               ELSE /\ max_pages' = n.v
                    /\ page' = 1
                    /\ pc' = LoopAt(1, n.v)
                    /\ UNCHANGED response
    /\ UNCHANGED <<parseVars, soup, listings, results, log, collected>>

\* Lines 66-70 with the exception left uncaught.
FetchErrorRaised ==
    /\ pc = "fetch"
    /\ log' = Append(log, Get(page, "error"))
    /\ response' = ServerError
    /\ pc' = "done"
    /\ UNCHANGED <<parseVars, args, max_pages, page, soup, listings, results,
                   collected>>

\* Lines 66-70: requests.get raises a RequestException.
FetchError ==
    /\ pc = "fetch"
    /\ log' = Append(log, Get(page, "error"))
    /\ pc' = "sort"
    /\ UNCHANGED <<parseVars, args, max_pages, page, soup, listings, results,
                   response, collected>>

\* Lines 71-73 with continue in the place of break.
FetchNon200Continue ==
    /\ pc = "fetch"
    /\ log' = Append(log, Get(page, "non200"))
    /\ page' = page + 1
    /\ pc' = LoopAt(page + 1, max_pages)
    /\ UNCHANGED <<parseVars, args, max_pages, soup, listings, results,
                   response, collected>>

\* Lines 67, 71-73: the response has a status other than 200.
FetchNon200 ==
    /\ pc = "fetch"
    /\ log' = Append(log, Get(page, "non200"))
    /\ pc' = "sort"
    /\ UNCHANGED <<parseVars, args, max_pages, page, soup, listings, results,
                   response, collected>>

\* Lines 67, 71, 75: the response has status 200 and is parsed.
FetchOk ==
    /\ pc = "fetch"
    /\ \E doc \in Docs : soup' = doc
    /\ log' = Append(log, Get(page, "ok"))
    /\ pc' = "extract"
    /\ UNCHANGED <<parseVars, args, max_pages, page, listings, results,
                   response, collected>>

\* Lines 76-97: the listings of the page are appended.
ExtractPage ==
    /\ pc = "extract"
    /\ listings' = FindListings(soup)
    /\ results' = results \o Extract(listings')
    /\ collected' = Append(collected, Extract(listings'))
    /\ pc' = "sleep"
    /\ UNCHANGED <<parseVars, args, max_pages, page, soup, response, log>>

\* Line 98 skipped after the last page.
SleepBetweenPages ==
    /\ pc = "sleep"
    /\ log' = IF page < max_pages THEN Append(log, Slept(page)) ELSE log
    /\ page' = page + 1
    /\ pc' = LoopAt(page + 1, max_pages)
    /\ UNCHANGED <<parseVars, args, max_pages, soup, listings, results,
                   response, collected>>

\* Lines 98 and 64: the pause, then the next value of the loop variable.
Sleep ==
    /\ pc = "sleep"
    /\ log' = Append(log, Slept(page))
    /\ page' = page + 1
    /\ pc' = LoopAt(page + 1, max_pages)
    /\ UNCHANGED <<parseVars, args, max_pages, soup, listings, results,
                   response, collected>>

\* Lines 100-101 and 116: sort in place, return, answer.
SortAndReturn ==
    /\ pc = "sort"
    /\ results' = SortByPrice(results)
    /\ response' = Ok(results')
    /\ pc' = "done"
    /\ UNCHANGED <<parseVars, args, max_pages, page, soup, listings, log,
                   collected>>

Next ==
    \/ Search
    \/ FetchError
    \/ FetchNon200
    \/ FetchOk
    \/ ExtractPage
    \/ Sleep
    \/ SortAndReturn

Spec == Init /\ [][Next]_vars

ParseInit ==
    /\ text \in ParseInputs
    /\ called = FALSE
    /\ out = NoValue
    /\ pc = "idle"
    /\ args = [keyword |-> None, pages |-> None]
    /\ max_pages = 0
    /\ page = 0
    /\ soup = <<>>
    /\ listings = <<>>
    /\ results = <<>>
    /\ response = NoResponse
    /\ log = <<>>
    /\ collected = <<>>

ParseNext == CallParsePrice

ParseSpec == ParseInit /\ [][ParseNext]_vars

-----------------------------------------------------------------------------
(* Vocabulary of the properties *)

IsGet(entry) == entry.op = "get"

IsSleep(entry) == entry.op = "sleep"

IsOkGet(entry) == entry.op = "get" /\ entry.result = "ok"

IsFailedGet(entry) == entry.op = "get" /\ entry.result # "ok"

Gets == SelectSeq(log, IsGet)

RECURSIVE Flatten(_)
Flatten(ss) == IF ss = <<>> THEN <<>> ELSE Head(ss) \o Flatten(Tail(ss))

\* The listings appended so far, in extraction order: by page, then by node.
Accumulated == Flatten(collected)

\* The request has a keyword and a page count, so scrape_etsy was entered.
Scraping ==
    /\ pc # "idle"
    /\ ~args.keyword.isNone
    /\ args.keyword.s # <<>>
    /\ PagesOf(args).ok

\* listings and collected describe the document in soup.
PageExtracted == collected # <<>> /\ pc # "extract"

LastCollected == collected[Len(collected)]

HasDigit(s) == \E i \in 1..Len(s) : IsDigit(s[i])

\* Some text of the element holds a digit.
Parseable(el) == \E k \in 1..Len(el.kids) : HasDigit(el.kids[k].s)

\* o is a in ascending order of price, equal prices in the order of a.
IsStableSortOf(o, a) ==
    /\ Len(o) = Len(a)
    /\ \A i, j \in 1..Len(o) : i < j => LessEq(o[i].price, o[j].price)
    /\ \A x \in {a[i] : i \in 1..Len(a)} \cup {o[i] : i \in 1..Len(o)} :
          LET SamePrice(y) == y.price = x.price
          IN  SelectSeq(o, SamePrice) = SelectSeq(a, SamePrice)

-----------------------------------------------------------------------------
(* C1 *)

\* C1: every listing in results, and in the answer, has a parsed price; a
\* page whose candidate nodes hold N nodes with a parseable price and M
\* without contributes exactly N listings.
C1_NonNullPrices ==
    /\ \A i \in 1..Len(results) : ~results[i].price.isNone
    /\ \A i \in 1..Len(response.items) : ~response.items[i].price.isNone
    /\ PageExtracted =>
          Len(LastCollected) =
              Cardinality({i \in 1..Len(listings) : Parseable(listings[i])})

C1_Witness ==
    /\ PageExtracted
    /\ \E i, j \in 1..Len(listings) :
          Parseable(listings[i]) /\ ~Parseable(listings[j])
    /\ Len(LastCollected) = Len(listings) - 1

(* C2 *)

\* C2: the sequence returned is the accumulated listings in ascending order
\* of price, listings of equal price in extraction order.
C2_StableSorted ==
    (Scraping /\ pc = "done") =>
        /\ IsStableSortOf(results, Accumulated)
        /\ response.items = results

C2_Witness ==
    /\ pc = "done"
    /\ Len(Accumulated) = 3
    /\ Accumulated[1].price = Normalise(20, 0)
    /\ Accumulated[2].price = Normalise(5, 0)
    /\ Accumulated[3].price = Normalise(5, 0)
    /\ Accumulated[2].title # Accumulated[3].title
    /\ results = <<Accumulated[2], Accumulated[3], Accumulated[1]>>

(* C3 *)

\* C3: the pages fetched are 1, 2, ... in order; no page is fetched after
\* a failed one; n fetches when all n succeed, none for n <= 0.
C3_FetchOrder ==
    /\ \A i \in 1..Len(Gets) : Gets[i].page = i
    /\ \A i \in 1..Len(Gets) : i < Len(Gets) => Gets[i].result = "ok"
    /\ Len(Gets) <= (IF max_pages > 0 THEN max_pages ELSE 0)
    /\ (Scraping /\ pc = "done"
        /\ \A i \in 1..Len(Gets) : Gets[i].result = "ok")
           => Len(Gets) = (IF max_pages > 0 THEN max_pages ELSE 0)

C3_Witness ==
    /\ pc = "done"
    /\ max_pages = 2
    /\ Len(Gets) = 1
    /\ Gets[1].result = "non200"

(* C4 *)

\* C4: after a failed fetch the request still ends with status 200 and
\* the sorted listings of the pages fetched before it; the answer is the
\* one any search that collected the same listings gets.
C4_FailureDegrades ==
    (Scraping /\ pc = "done") =>
        /\ response.status = 200
        /\ response.error = ""
        /\ IsStableSortOf(response.items, Accumulated)
        /\ (\E i \in 1..Len(log) : IsFailedGet(log[i]))
              => Len(collected) = Len(Gets) - 1

C4_Witness ==
    /\ pc = "done"
    /\ Len(Gets) = 2
    /\ Gets[2].result = "error"
    /\ response.status = 200
    /\ Len(response.items) = 2

(* C5 *)

\* C5: a request without keyword is answered 400 with the error body,
\* whatever its pages parameter is, and nothing is fetched.
C5_MissingKeyword ==
    (pc = "done" /\ args.keyword.isNone) =>
        /\ response = MissingKeyword
        /\ log = <<>>

C5_Witness ==
    /\ pc = "done"
    /\ args.keyword.isNone
    /\ ~args.pages.isNone
    /\ ~PagesOf(args).ok
    /\ response.status = 400

(* C6 *)

\* The seven steps of the normaliser as its description gives them, for a
\* text that is present.
StepStrip(s) ==
    LET NotThinOrNbsp(c) == c \notin {"thin", "nbsp"}
    IN  SelectSeq(s, NotThinOrNbsp)

StepBlank(s) ==
    [i \in 1..Len(s) |->
        IF s[i] \in {DigitChars[d] : d \in 1..10} \cup {",", ".", "-"}
        THEN s[i] ELSE " "]

StepTrim(s) ==
    LET inked == {i \in 1..Len(s) : s[i] # " "}
    IN  IF inked = {} THEN <<>>
        ELSE SubSeq(s, CHOOSE i \in inked : \A j \in inked : i <= j,
                       CHOOSE i \in inked : \A j \in inked : j <= i)

StepUnspace(s) ==
    LET NotSpace(c) == c # " "
    IN  SelectSeq(s, NotSpace)

StepSeparators(s) ==
    LET comma == \E i \in 1..Len(s) : s[i] = ","
        period == \E i \in 1..Len(s) : s[i] = "."
        NotComma(c) == c # ","
    IN  IF comma /\ period THEN SelectSeq(s, NotComma)
        ELSE IF comma THEN [i \in 1..Len(s) |-> IF s[i] = "," THEN "." ELSE s[i]]
        ELSE s

\* g is digits, or digits "." digits.
IsNumeral(g) ==
    /\ g # <<>>
    /\ IsDigit(g[1])
    /\ IsDigit(g[Len(g)])
    /\ \A i \in 1..Len(g) : IsDigit(g[i]) \/ g[i] = "."
    /\ Cardinality({i \in 1..Len(g) : g[i] = "."}) <= 1

\* The leftmost numeral of s, taken as long as it can be; <<>> if none.
StepExtract(s) ==
    LET spans == {sp \in (1..Len(s)) \X (1..Len(s)) :
                     sp[1] <= sp[2] /\ IsNumeral(SubSeq(s, sp[1], sp[2]))}
    IN  IF spans = {} THEN <<>>
        ELSE LET best == CHOOSE sp \in spans : \A o \in spans :
                             \/ sp[1] < o[1]
                             \/ sp[1] = o[1] /\ sp[2] >= o[2]
             IN  SubSeq(s, best[1], best[2])

SevenSteps(t) ==
    IF t.isNone \/ t.s = <<>> THEN NoValue
    ELSE LET g == StepExtract(StepSeparators(StepUnspace(StepTrim(
                      StepBlank(StepStrip(t.s))))))
         IN  IF g = <<>> THEN NoValue ELSE Float(g)

\* C6: parse_price returns what the seven steps return, on every text over
\* the alphabet and on the examples; "1,234" is 1.234.
C6_SevenSteps ==
    /\ called => out = SevenSteps(text)
    /\ parse_price(Str(<<"$", "1", "2", ".", "5", "0">>)) = Normalise(125, 1)
    /\ parse_price(Str(<<"1", ",", "2", "3", "4">>)) = Normalise(1234, 3)
    /\ parse_price(Str(<<"1", ",", "2", "3", "4", ".", "5", "6">>))
           = Normalise(123456, 2)
    /\ parse_price(Str(<<>>)) = NoValue
    /\ parse_price(None) = NoValue
    /\ parse_price(Str(<<"f", "r", "e", "e">>)) = NoValue

C6_Witness ==
    /\ called
    /\ Count(text.s, ",") > 0
    /\ Count(text.s, ".") = 0
    /\ out = Normalise(55, 1)

(* C7 *)

\* The result set of strategy k on the document.
Strategy(k, doc) ==
    IF k = 1 THEN SelectSeq(AllElems(doc), HasListingId)
    ELSE IF k = 2 THEN SelectSeq(AllElems(doc), IsUnstyledItem)
    ELSE SelectSeq(AllElems(doc), IsListingLink)

\* C7: the candidate nodes are the result set of one strategy, every
\* earlier strategy found nothing, and they are empty only if all three
\* found nothing; nothing is appended when none of them has a price, even
\* if a later strategy holds priced nodes.
C7_FirstNonEmptyStrategy ==
    PageExtracted =>
        /\ \E k \in 1..3 :
              /\ listings = Strategy(k, soup)
              /\ \A j \in 1..3 : j < k => Strategy(j, soup) = <<>>
              /\ listings = <<>> => \A j \in 1..3 : Strategy(j, soup) = <<>>
        /\ (\A i \in 1..Len(listings) : ~Parseable(listings[i]))
              => LastCollected = <<>>

C7_Witness ==
    /\ PageExtracted
    /\ listings # <<>>
    /\ listings = Strategy(1, soup)
    /\ \A i \in 1..Len(listings) : ~Parseable(listings[i])
    /\ \E i \in 1..Len(Strategy(2, soup)) : Parseable(Strategy(2, soup)[i])
    /\ LastCollected = <<>>

(* C8 *)

\* The price the claim gives a candidate node.
ClaimedPrice(el) ==
    LET tags == {i \in 1..Len(el.kids) : IsCurrencyValue(el.kids[i])}
        first == CHOOSE i \in tags : \A j \in tags : i <= j
    IN  IF tags # {} /\ ~parse_price(Str(el.kids[first].s)).isNone
        THEN parse_price(Str(el.kids[first].s))
        ELSE parse_price(Str(FullText(el)))

\* The claimed prices of the nodes, those without a value left out.
RECURSIVE ClaimedPrices(_)
ClaimedPrices(ls) ==
    IF ls = <<>> THEN <<>>
    ELSE (IF ClaimedPrice(Head(ls)).isNone THEN <<>>
          ELSE <<ClaimedPrice(Head(ls))>>)
         \o ClaimedPrices(Tail(ls))

\* C8: the prices appended for a page are, node by node, the price of the
\* currency-value element when it exists and has a value, else the price of
\* the full text; a node is left out exactly when neither has a value.
C8_PriceSource ==
    PageExtracted =>
        [i \in 1..Len(LastCollected) |-> LastCollected[i].price]
            = ClaimedPrices(listings)

C8_Witness ==
    /\ PageExtracted
    /\ listings = <<ItemC>>
    /\ \E i \in 1..Len(ItemC.kids) :
          /\ IsCurrencyValue(ItemC.kids[i])
          /\ parse_price(Str(ItemC.kids[i].s)).isNone
    /\ Len(LastCollected) = 1
    /\ LastCollected[1].price = Normalise(5, 0)

(* C9 *)

\* C9: each successful fetch is followed by one sleep of the pause, after
\* the page's listings are appended and before the next fetch, also after
\* the last page; a failed fetch is followed by nothing.
C9_SleepAfterEachPage ==
    LET sleeps == Len(SelectSeq(log, IsSleep))
        okGets == Len(SelectSeq(log, IsOkGet))
    IN  /\ sleeps <= Len(collected)
        /\ Len(collected) <= okGets
        /\ okGets <= sleeps + 1
        /\ pc \in {"fetch", "sort", "done"} => sleeps = okGets
        /\ \A i \in 1..Len(log) :
              /\ (IsOkGet(log[i]) /\ i < Len(log)) => IsSleep(log[i + 1])
              /\ IsFailedGet(log[i]) => i = Len(log)
              /\ IsSleep(log[i]) =>
                    (i > 1 /\ IsOkGet(log[i - 1]) /\ log[i].secs = Pause)

C9_Witness ==
    /\ pc = "done"
    /\ max_pages = 2
    /\ Len(log) = 4
    /\ IsOkGet(log[3])
    /\ IsSleep(log[4])

(* C10 *)

====
